---- MODULE Spec2Model ----
(***************************************************************************)
(* Change-notification and incremental-sync engine of the e-mail kanban    *)
(* backend: PullStrategy (Pub/Sub subscription, watch start, notification  *)
(* handler), the e-mail store helper getOrCreateEmailFromGmail, the        *)
(* status mapper getStatusFromGmailLabels and the PATCH status route.      *)
(*                                                                         *)
(* Every await of the TypeScript code is a scheduling point: one action    *)
(* of the model is the code that runs between two awaits.                  *)
(***************************************************************************)
EXTENDS Integers, Sequences, FiniteSets, Bags, TLC

\* ------------------------------------------------------------------ bounds
MaxEvents == 2         \* provider history records appended per mailbox
MaxHandlers == 2       \* Pub/Sub message callbacks that may be in flight
MaxRules == 2          \* columns of a kanban configuration under study
MaxRequests == 2       \* getOrCreateEmailFromGmail calls that may be in flight
MaxTime == 3           \* last tick of the server clock
MaxSweeps == 2         \* snooze-expiry timer callbacks that may be in flight
MaxSockets == 3        \* socket.io connections accepted in a run
MaxCalls == 3          \* POST /refresh requests answered in a run
MaxTabs == 2           \* browser tabs sharing the auth worker
MaxPorts == 3          \* ports the tabs open to the auth worker in a run
MaxLogouts == 2        \* handleLogout calls and LOGOUT messages in flight when a user logs out
MaxIds == 3            \* ids of the e-mails a mailbox may hold
MaxPage == 2           \* e-mails in one page of a mailbox

\* ------------------------------------------------------------- basic sets
Users == {"u1"}
FirstHistoryId == 1                       \* historyId of a mailbox before any event
HistoryIds == FirstHistoryId..(FirstHistoryId + MaxEvents)

\* latestHistoryId is an optional decimal string; BigInt() of it is the
\* number modelled here, and 0 stands for the absent (falsy) value.
NoCursor == 0

\* ------------------------------------------------------- kanban columns
\* A column of KanbanConfig.columns, as the routes read it: its status value,
\* its gmailLabel (NoLabel when the optional field is unset) and its order.
NoLabel == ""
NoConfig == << [status |-> "none", gmailLabel |-> NoLabel, order |-> -1] >>
DefaultColumns ==
    << [status |-> "inbox",   gmailLabel |-> "INBOX",   order |-> 0],
       [status |-> "todo",    gmailLabel |-> "STARRED", order |-> 1],
       [status |-> "done",    gmailLabel |-> NoLabel,   order |-> 2],
       [status |-> "snoozed", gmailLabel |-> NoLabel,   order |-> 3] >>

\* Array.prototype.sort((a, b) => a.order - b.order): a stable sort, here
\* by insertion.
RECURSIVE InsertByOrder(_, _)
InsertByOrder(c, sorted) ==
    IF sorted = <<>> THEN <<c>>
    ELSE IF c.order < Head(sorted).order THEN <<c>> \o sorted
    ELSE <<Head(sorted)>> \o InsertByOrder(c, Tail(sorted))

RECURSIVE SortFrom(_, _)
SortFrom(cols, i) ==
    IF i = 0 THEN <<>> ELSE InsertByOrder(cols[i], SortFrom(cols, i - 1))

SortByOrder_unsorted(cols) == cols

SortByOrder(cols) == SortFrom(cols, Len(cols))

\* gmailLabels.includes(label)
Includes(gmailLabels, label) == \E i \in 1..Len(gmailLabels) : gmailLabels[i] = label

\* The for loop over the sorted columns, falling back to mailboxId.
RECURSIVE FirstMatch(_, _, _)
FirstMatch(sortedColumns, gmailLabels, mailboxId) ==
    IF sortedColumns = <<>> THEN mailboxId
    ELSE LET column == Head(sortedColumns)
         IN IF column.gmailLabel # NoLabel /\ Includes(gmailLabels, column.gmailLabel)
              THEN column.status
              ELSE FirstMatch(Tail(sortedColumns), gmailLabels, mailboxId)

\* The configuration getStatusFromGmailLabels works on: the stored one, or
\* the default one it creates and saves when the user has none.
LoadedConfig(stored) == IF stored = NoConfig THEN DefaultColumns ELSE stored

\* getStatusFromGmailLabels, given the stored configuration; dbOk is FALSE
\* when KanbanConfig.findOne rejects and the catch block returns mailboxId.
getStatusFromGmailLabels(stored, gmailLabels, mailboxId, dbOk) ==
    IF dbOk
      THEN FirstMatch(SortByOrder(LoadedConfig(stored)), gmailLabels, mailboxId)
      ELSE mailboxId

VARIABLES
    mailboxH,    \* provider: current historyId of each user's mailbox
    added,       \* provider: positions of each mailbox whose record is a messagesAdded
    watched,     \* provider: users with a registered watch (publishes to the topic)
    cursor,      \* User.latestHistoryId as stored in MongoDB
    firstSeed,   \* history: the first cursor ever stored for the user
    hs,          \* bag of the message callbacks in flight (startListening + handleNotification)
    st,          \* one record per user: PullStrategy.start in flight
    emitted,     \* history: <<userId, messageId>> pairs handed to socketService.emitToUser
    emails,      \* the Email collection: documents [emailId, userId, status, snoozeUntil]
    gs,          \* bag of the getOrCreateEmailFromGmail calls in flight
    kanbanCfg,   \* the user's KanbanConfig.columns as stored, or NoConfig
    mapIn,       \* arguments of the getStatusFromGmailLabels call under study
    mapOut,      \* what that call returned
    now,         \* the server clock (new Date()), in whole ticks
    sw,          \* bag of the snooze-expiry timer callbacks in flight
    swept,       \* history: bag of <<userId, emailId>>, the expiry writes to an item since its last user action
    io,          \* SocketService.io is set (initialize ran)
    userSockets, \* SocketService.userSockets: userId -> list of socket ids
    live,        \* socket.io: every socket so far, socket id -> [userId, connected]
    sent,        \* history: the last emitToUser call, [userId, to: socket ids emitted to]
    login,       \* what GET /google/callback answered for each user
    appRefreshToken, \* tokenStore: userId -> the app refresh token stored for the user
    revoked,     \* history, per user: "no", or how POST /logout found the user since the last login
    answer,      \* history: the last answer of POST /refresh, and whether its user was logged out
    ports,       \* shared worker: the Set of connected ports, each <<tab, n>>
    workerRef,   \* per tab: the port of workerRef.current, or NoPort
    user,        \* per tab: AuthProvider's user state is set
    logouts,     \* bag of the handleLogout calls awaiting cacheService.clearCache
    toWorker,    \* bag of the LOGOUT messages posted to the worker, by sending port
    toPort,      \* bag of the LOGOUT messages posted by the worker, by receiving port
    posted,      \* history: the last broadcast of the worker
    owed,        \* history: tabs connected when another tab logged out, not logged in since
    list,        \* useMailboxEmails: the emails state, as the sequence of its ids
    cache,       \* cacheService: ids in the IndexedDB emails store
    lastOp       \* history: the last update of the list

mapVars == <<kanbanCfg, mapIn, mapOut>>
sweepVars == <<now, sw, swept>>
sockVars == <<io, userSockets, live, sent>>
authVars == <<appRefreshToken, revoked, answer>>
tabVars == <<ports, workerRef, user, logouts, toWorker, toPort, posted, owed>>
listVars == <<list, cache, lastOp>>

\* The browser side and the application's own session tokens.
clientVars == <<authVars, tabVars, listVars>>

\* The clock, the snooze timer, the socket registry and the login answers:
\* the synchronisation engine neither reads nor writes them.
sideVars == <<sweepVars, sockVars, login, clientVars>>

vars == <<mailboxH, added, watched, cursor, firstSeed, hs, st, emitted, emails, gs, mapVars, sideVars>>

\* A message callback: where it is (pc), the envelope it parsed, the
\* latestHistoryId of the user document it loaded (snap), whether a provider
\* fetch of it rejected, whether its user.save() stored the cursor, and once
\* it is over how handleNotification ended and whether message.ack() was called.
NewHandler(env) ==
    [pc |-> "findOne", email |-> env[1], newH |-> env[2], snap |-> 0,
     fetchFailed |-> FALSE, wrote |-> FALSE, outcome |-> "none", acked |-> FALSE]

\* Callbacks run the same code and have no identity of their own.
Replace(r, r2) == (hs (-) SetToBag({r})) (+) SetToBag({r2})

IdleStart == [pc |-> "idle", resp |-> 0]

NoCall == [gmailLabels |-> <<>>, mailboxId |-> "none"]
NoResult == [status |-> "none", dbOk |-> FALSE, called |-> FALSE]

\* A user action on item k starts its count of expiry writes afresh.
Untouched(b, k) == [x \in DOMAIN b \ {k} |-> b[x]]

NoLogin == [startCalled |-> FALSE, tokens |-> FALSE, cookie |-> FALSE, redirect |-> "none"]

\* The accounts of the application, a session cookie being the plain userId.
Accounts == {"u1", "u2"}

\* What the token store holds for a user who has no app refresh token.
NoToken == ""

NoAnswer ==
    [n |-> 0, userId |-> "none", status |-> 0, accessToken |-> FALSE, loggedOut |-> FALSE]

\* The browser tabs of one user, on one origin, sharing the auth worker.
Tabs == 1..MaxTabs

NoPort == <<0, 0>>

NoBroadcast == [from |-> NoPort, at |-> {}, to |-> EmptyBag]

NoOp == [op |-> "none", dropped |-> 0]

\* No app session, no tab mounted, an empty list on the page.
ClientIdle ==
    /\ appRefreshToken = [u \in Accounts |-> NoToken]
    /\ revoked = [u \in Accounts |-> "no"]
    /\ answer = NoAnswer
    /\ ports = {}
    /\ workerRef = [t \in Tabs |-> NoPort]
    /\ user = [t \in Tabs |-> FALSE]
    /\ logouts = EmptyBag
    /\ toWorker = EmptyBag
    /\ toPort = EmptyBag
    /\ posted = NoBroadcast
    /\ owed = {}
    /\ list = << >>
    /\ cache = {}
    /\ lastOp = NoOp

\* Nothing snoozed or swept yet, no socket connected, nobody logged in.
SideIdle ==
    /\ ClientIdle
    /\ now = 1
    /\ sw = EmptyBag
    /\ swept = EmptyBag
    /\ io = FALSE
    /\ userSockets = << >>
    /\ live = << >>
    /\ sent = [userId |-> "none", to |-> << >>]
    /\ login = [u \in Users |-> NoLogin]

Init ==
    /\ mailboxH = [u \in Users |-> FirstHistoryId]
    /\ added = [u \in Users |-> {}]
    /\ watched = [u \in Users |-> FALSE]
    /\ cursor = [u \in Users |-> NoCursor]
    /\ firstSeed = [u \in Users |-> NoCursor]
    /\ hs = EmptyBag
    /\ st = [u \in Users |-> IdleStart]
    /\ emitted = {}
    /\ emails = {}
    /\ gs = EmptyBag
    /\ kanbanCfg = NoConfig
    /\ mapIn = NoCall
    /\ mapOut = NoResult
    /\ SideIdle

\* ---------------------------------------------------------------- provider
\* The Gmail mailbox appends one history record; a record either lists one
\* added message (whose id is the record's position) or is some other
\* change.  A watched mailbox publishes the envelope {emailAddress, historyId}
\* for it.  Records appended before the first watch only shift the ids:
\* FirstHistoryId is the mailbox's historyId when it is first watched.
ProviderEvent(u, isMsg) ==
    /\ watched[u]
    /\ mailboxH[u] < FirstHistoryId + MaxEvents
    /\ mailboxH' = [mailboxH EXCEPT ![u] = @ + 1]
    /\ added' = [added EXCEPT ![u] = IF isMsg THEN @ \cup {mailboxH[u] + 1} ELSE @]
    /\ UNCHANGED <<watched, cursor, firstSeed, hs, st, emitted, emails, gs, mapVars, sideVars>>

\* gmailService.getHistory(userId, startHistoryId): the records after
\* startHistoryId, oldest first, each as [id, messagesAdded].
RECURSIVE HistoryFrom(_, _, _)
HistoryFrom(u, lo, hi) ==
    IF lo >= hi THEN <<>>
    ELSE <<[id |-> lo + 1,
            messagesAdded |-> IF lo + 1 \in added[u] THEN <<lo + 1>> ELSE <<>>]>>
         \o HistoryFrom(u, lo + 1, hi)

getHistory(u, startHistoryId) == HistoryFrom(u, startHistoryId, mailboxH[u])

\* The nested loops of handleNotification over history records and their
\* messagesAdded entries visit these message ids, in this order.
RECURSIVE MessagesOf(_)
MessagesOf(history) ==
    IF history = <<>> THEN <<>>
    ELSE Head(history).messagesAdded \o MessagesOf(Tail(history))

\* ------------------------------------------------------ PullStrategy.start
\* start(userId) is called; User.findById resolves (the user exists) and
\* gmailService.watch is awaited.
StartCall(u) ==
    /\ st[u].pc = "idle"
    /\ st' = [st EXCEPT ![u] = [pc |-> "watch", resp |-> 0]]
    /\ UNCHANGED <<mailboxH, added, watched, cursor, firstSeed, hs, emitted, emails, gs, mapVars, sideVars>>

\* gmailService.watch resolves with the mailbox's current historyId, or throws.
StartWatch(u, ok) ==
    /\ st[u].pc = "watch"
    /\ IF ok
         THEN /\ watched' = [watched EXCEPT ![u] = TRUE]
              /\ st' = [st EXCEPT ![u] = [pc |-> "save", resp |-> mailboxH[u]]]
         ELSE /\ st' = [st EXCEPT ![u] = IdleStart]
              /\ UNCHANGED watched
    /\ UNCHANGED <<mailboxH, added, cursor, firstSeed, hs, emitted, emails, gs, mapVars, sideVars>>

\* The value start stores: the watch response, whatever the stored cursor is.
SeedValue(stored, resp) == resp

\* user.save() of start resolves or throws.
StartSave(u, ok) ==
    /\ st[u].pc = "save"
    /\ st' = [st EXCEPT ![u] = IdleStart]
    /\ IF ok
         THEN /\ cursor' = [cursor EXCEPT ![u] = SeedValue(@, st[u].resp)]
              /\ firstSeed' = [firstSeed EXCEPT ![u] =
                                   IF @ = NoCursor THEN st[u].resp ELSE @]
         ELSE UNCHANGED <<cursor, firstSeed>>
    /\ UNCHANGED <<mailboxH, added, watched, hs, emitted, emails, gs, mapVars, sideVars>>

\* ---------------------------------- startListening + handleNotification
IsStale_strict(newHistoryId, latestHistoryId) == newHistoryId < latestHistoryId

\* BigInt(newHistoryId) <= BigInt(user.latestHistoryId)
IsStale(newHistoryId, latestHistoryId) == newHistoryId <= latestHistoryId

\* handleNotification returned normally (also from its catch block): the
\* subscription callback goes on to message.ack().
Returned(r, how) == [r EXCEPT !.pc = "done", !.newH = 0, !.snap = 0,
                              !.outcome = how, !.acked = TRUE]

\* handleNotification rejected: the callback's catch block only logs.
Rejected(r, how) == [r EXCEPT !.pc = "done", !.newH = 0, !.snap = 0,
                              !.outcome = how, !.acked = FALSE]

\* The envelopes the topic has carried.  Pub/Sub delivers at least once: any
\* of them may be delivered again at any time, acknowledged or not.
Published ==
    {<<u, p>> : u \in Users, p \in (FirstHistoryId + 1)..(FirstHistoryId + MaxEvents)}
        \cap {e \in Users \X HistoryIds : e[2] <= mailboxH[e[1]]}

\* The subscription delivers a message; JSON.parse succeeds and
\* handleNotification runs up to its await of User.findOne.  At most limit
\* callbacks are in flight.
Receive(env, limit) ==
    /\ BagCardinality(hs) < limit
    /\ env \in Published
    /\ hs' = hs (+) SetToBag({NewHandler(env)})
    /\ UNCHANGED <<mailboxH, added, watched, cursor, firstSeed, st, emitted, emails, gs, mapVars, sideVars>>

OnNoUser_unacked(r) == Rejected(r, "nouser")

\* if (!user || !user.latestHistoryId) return;
OnNoUser(r) == Returned(r, "nouser")

\* The latestHistoryId of the user document User.findOne({email}) yields;
\* NoCursor as well when no user has that address.
LatestOf(stored, email) == IF email \in Users THEN stored[email] ELSE NoCursor

\* User.findOne resolves (or rejects); the two guards run; getHistory is called.
FindOne(r, ok) ==
    /\ BagIn(r, hs)
    /\ r.pc = "findOne"
    /\ LET latest == LatestOf(cursor, r.email)
           r2 == IF ~ok THEN Rejected(r, "threw")
                 ELSE IF latest = NoCursor THEN OnNoUser(r)
                 ELSE IF IsStale(r.newH, latest) THEN Returned(r, "stale")
                 ELSE [r EXCEPT !.pc = "getHistory", !.snap = latest]
       IN hs' = Replace(r, r2)
    /\ UNCHANGED <<mailboxH, added, watched, cursor, firstSeed, st, emitted, emails, gs, mapVars, sideVars>>

OnFetchError_swallow(r) == [r EXCEPT !.fetchFailed = TRUE, !.pc = "save"]

\* getHistory or getMessage rejected: the catch block of handleNotification
\* logs and the function returns without touching the cursor.
OnFetchError(r) == Returned([r EXCEPT !.fetchFailed = TRUE], "failed")

\* The first n elements of a sequence, as a set.
Prefix(seq, n) == {seq[i] : i \in 1..n}

\* gmailService.getHistory resolves (or rejects into the catch block); then,
\* for each added message in turn, gmailService.getMessage resolves and the
\* parsed message goes to socketService.emitToUser(user.id, 'email:new', ..),
\* until the loop ends or a getMessage rejects.  nOk getMessage calls resolve.
\* These awaits are taken as one step: between them the handler reads only
\* the history list it already holds and immutable provider messages, and
\* writes nothing another callback reads.
GetHistory(r, ok, nOk) ==
    /\ BagIn(r, hs)
    /\ r.pc = "getHistory"
    /\ LET msgs == MessagesOf(getHistory(r.email, r.snap))
           r2 == IF ok /\ nOk = Len(msgs)
                   THEN [r EXCEPT !.pc = "save"]
                   ELSE OnFetchError(r)
       IN /\ nOk \in 0..Len(msgs)
          /\ ~ok => nOk = 0
          /\ hs' = Replace(r, r2)
          /\ emitted' = emitted \cup {<<r.email, m>> : m \in Prefix(msgs, nOk)}
    /\ UNCHANGED <<mailboxH, added, watched, cursor, firstSeed, st, emails, gs, mapVars, sideVars>>

\* user.latestHistoryId = newHistoryId; user.save() resolves (or rejects).
Save(r, ok) ==
    /\ BagIn(r, hs)
    /\ r.pc = "save"
    /\ hs' = Replace(r, IF ok THEN Returned([r EXCEPT !.wrote = TRUE], "ok")
                              ELSE Returned(r, "failed"))
    /\ cursor' = IF ok THEN [cursor EXCEPT ![r.email] = r.newH] ELSE cursor
    /\ UNCHANGED <<mailboxH, added, watched, firstSeed, st, emitted, emails, gs, mapVars, sideVars>>

\* The callback is over.
Release(r) ==
    /\ BagIn(r, hs)
    /\ r.pc = "done"
    /\ hs' = hs (-) SetToBag({r})
    /\ UNCHANGED <<mailboxH, added, watched, cursor, firstSeed, st, emitted, emails, gs, mapVars, sideVars>>

Next ==
    \/ \E u \in Users, isMsg \in BOOLEAN : ProviderEvent(u, isMsg)
    \/ \E u \in Users : StartCall(u)
    \/ \E u \in Users, ok \in BOOLEAN : StartWatch(u, ok)
    \/ \E u \in Users, ok \in BOOLEAN : StartSave(u, ok)
    \/ \E env \in Published : Receive(env, MaxHandlers)
    \/ \E r \in BagToSet(hs), ok \in BOOLEAN : FindOne(r, ok)
    \/ \E r \in BagToSet(hs), ok \in BOOLEAN, nOk \in 0..MaxEvents : GetHistory(r, ok, nOk)
    \/ \E r \in BagToSet(hs), ok \in BOOLEAN : Save(r, ok)
    \/ \E r \in BagToSet(hs) : Release(r)

Spec == Init /\ [][Next]_vars

\* ------------------------------------------- other payloads on the queue
\* Message data that is no envelope of a known user: text that is not JSON,
\* JSON without historyId, JSON without emailAddress, and an envelope whose
\* emailAddress no user has.
Payloads == {"notJson", "noHistoryId", "noEmailAddress", "unknownAddress"}

\* The emailAddress handleNotification reads from such a payload.
AddressOf(payload) ==
    IF payload = "unknownAddress" THEN "nobody" ELSE "undefined"

\* The subscription delivers such a message.  JSON.parse throws on text that
\* is not JSON, and historyId.toString() throws on a missing historyId: the
\* callback's catch block logs, and the message is neither acked nor nacked.
\* Otherwise handleNotification runs up to its await of User.findOne, whose
\* filter has the address of an unknown user or none at all.
ReceiveOther(payload, h, limit) ==
    /\ BagCardinality(hs) < limit
    /\ hs' = hs (+) SetToBag({
               IF payload \in {"notJson", "noHistoryId"}
                 THEN Rejected(NewHandler(<<AddressOf(payload), 0>>), "malformed")
                 ELSE NewHandler(<<AddressOf(payload), h>>)})
    /\ UNCHANGED <<mailboxH, added, watched, cursor, firstSeed, st, emitted, emails, gs, mapVars, sideVars>>

\* The subscription with every kind of message, one callback at a time.
NextQueue ==
    \/ \E u \in Users, isMsg \in BOOLEAN : ProviderEvent(u, isMsg)
    \/ \E u \in Users : StartCall(u)
    \/ \E u \in Users, ok \in BOOLEAN : StartWatch(u, ok)
    \/ \E u \in Users, ok \in BOOLEAN : StartSave(u, ok)
    \/ \E env \in Published : Receive(env, 1)
    \/ \E payload \in Payloads, h \in HistoryIds : ReceiveOther(payload, h, 1)
    \/ \E r \in BagToSet(hs), ok \in BOOLEAN : FindOne(r, ok)
    \/ \E r \in BagToSet(hs), ok \in BOOLEAN, nOk \in 0..MaxEvents : GetHistory(r, ok, nOk)
    \/ \E r \in BagToSet(hs), ok \in BOOLEAN : Save(r, ok)
    \/ \E r \in BagToSet(hs) : Release(r)

SpecQueue == Init /\ [][NextQueue]_vars

\* ------------------------------------------------------- the e-mail store
NoSnooze == 0
ValidStatuses == {"inbox", "todo", "done", "snoozed"}    \* EmailSchema.status enum

\* message.labelIds of the provider's messages.
LabelsOf(m) == IF m % 2 = 0 THEN <<"INBOX">> ELSE <<"STARRED", "UNREAD">>

NewRequest(u, m) ==
    [pc |-> "findOne", userId |-> u, emailId |-> m, status |-> "none", outcome |-> "none"]

ReplaceG(g, g2) == (gs (-) SetToBag({g})) (+) SetToBag({g2})

\* The status of the stored item of a request's message, "none" without one.
StoredStatus(store, g) ==
    IF \E e \in store : e.emailId = g.emailId /\ e.userId = g.userId
      THEN (CHOOSE e \in store : e.emailId = g.emailId /\ e.userId = g.userId).status
      ELSE "none"

\* The call is over; its record keeps how it ended, and "kept" when its save
\* carried a valid status and was rejected while the store held another one.
Finished(g, how, store) ==
    [g EXCEPT !.pc = "done", !.outcome = how,
              !.status = IF /\ how = "rejected"
                            /\ g.status \in ValidStatuses
                            /\ StoredStatus(store, g) \notin {"none", g.status}
                           THEN "kept" ELSE "none"]

InsertEmail_noIndex(store, doc) ==
    IF doc.status \notin ValidStatuses THEN store ELSE store \cup {doc}

InsertEmail_upsert(store, doc) ==
    {e \in store : ~(e.emailId = doc.emailId /\ e.userId = doc.userId)} \cup {doc}

\* newEmail.save(): the unique index on (emailId, userId) rejects a second
\* document for the pair, and the schema's enum rejects an unknown status.
InsertEmail(store, doc) ==
    IF \/ \E e \in store : e.emailId = doc.emailId /\ e.userId = doc.userId
       \/ doc.status \notin ValidStatuses
      THEN store
      ELSE store \cup {doc}

\* A route calls getOrCreateEmailFromGmail(userId, messageId, "INBOX"), which
\* runs up to its await of EmailModel.findOne.
GCall(u, m) ==
    /\ BagCardinality(gs) < MaxRequests
    /\ m \in added[u]
    /\ gs' = gs (+) SetToBag({NewRequest(u, m)})
    /\ UNCHANGED <<mailboxH, added, watched, cursor, firstSeed, hs, st, emitted,
                   emails, mapVars, sideVars>>

\* EmailModel.findOne resolves: an existing document is returned as it is;
\* otherwise, or when the query rejects, gmailService.getMessage is called.
GFindOne(g, ok) ==
    /\ BagIn(g, gs)
    /\ g.pc = "findOne"
    /\ gs' = ReplaceG(g, IF ok /\ \E e \in emails : e.emailId = g.emailId /\ e.userId = g.userId
                           THEN Finished(g, "existing", emails)
                           ELSE [g EXCEPT !.pc = "getMessage"])
    /\ UNCHANGED <<mailboxH, added, watched, cursor, firstSeed, hs, st, emitted,
                   emails, mapVars, sideVars>>

\* gmailService.getMessage resolves (or rejects out of the function); the
\* message is parsed, embedded, and getStatusFromGmailLabels maps its labels;
\* newEmail.save() is called.
GGetMessage(g, ok, dbOk) ==
    /\ BagIn(g, gs)
    /\ g.pc = "getMessage"
    /\ IF ok
         THEN /\ gs' = ReplaceG(g, [g EXCEPT !.pc = "save",
                        !.status = getStatusFromGmailLabels(kanbanCfg, LabelsOf(g.emailId),
                                                            "INBOX", dbOk)])
              /\ kanbanCfg' = IF dbOk THEN LoadedConfig(kanbanCfg) ELSE kanbanCfg
         ELSE /\ gs' = ReplaceG(g, Finished(g, "threw", emails))
              /\ UNCHANGED kanbanCfg
    /\ UNCHANGED <<mailboxH, added, watched, cursor, firstSeed, hs, st, emitted,
                   emails, mapIn, mapOut, sideVars>>

\* newEmail.save() resolves or rejects; a rejection is logged and the parsed
\* message is returned all the same.
GSave(g, ok) ==
    /\ BagIn(g, gs)
    /\ g.pc = "save"
    /\ LET doc == [emailId |-> g.emailId, userId |-> g.userId, status |-> g.status,
                   snoozeUntil |-> NoSnooze]
           after == IF ok THEN InsertEmail(emails, doc) ELSE emails
       IN /\ emails' = after
          /\ gs' = ReplaceG(g, Finished(g, IF doc \in after /\ doc \notin emails
                                            THEN "created" ELSE "rejected", after))
    /\ UNCHANGED <<mailboxH, added, watched, cursor, firstSeed, hs, st, emitted,
                   mapVars, sideVars>>

\* The call is over.
GRelease(g) ==
    /\ BagIn(g, gs)
    /\ g.pc = "done"
    /\ gs' = gs (-) SetToBag({g})
    /\ UNCHANGED <<mailboxH, added, watched, cursor, firstSeed, hs, st, emitted,
                   emails, mapVars, sideVars>>

\* PATCH /emails/:id/status on a stored item: the status must be one of the
\* user's columns; the document gets it, and loses snoozeUntil unless the
\* status is "snoozed".
PatchStatus(u, m, status) ==
    /\ \E i \in 1..Len(LoadedConfig(kanbanCfg)) : LoadedConfig(kanbanCfg)[i].status = status
    /\ \E e \in emails :
         /\ e.emailId = m /\ e.userId = u
         /\ emails' = (emails \ {e}) \cup
                        {[e EXCEPT !.status = status,
                                   !.snoozeUntil = IF status # "snoozed" THEN NoSnooze ELSE @]}
    /\ kanbanCfg' = LoadedConfig(kanbanCfg)
    /\ swept' = Untouched(swept, <<u, m>>)
    /\ UNCHANGED <<clientVars, mailboxH, added, watched, cursor, firstSeed, hs, st, emitted,
                   gs, mapIn, mapOut, now, sw, sockVars, login>>

\* A linked mailbox that received two messages since its watch began,
\* neither of them synchronised yet.
InitStore ==
    /\ mailboxH = [u \in Users |-> FirstHistoryId + 2]
    /\ added = [u \in Users |-> {FirstHistoryId + 1, FirstHistoryId + 2}]
    /\ watched = [u \in Users |-> TRUE]
    /\ cursor = [u \in Users |-> FirstHistoryId]
    /\ firstSeed = [u \in Users |-> FirstHistoryId]
    /\ hs = EmptyBag
    /\ st = [u \in Users |-> IdleStart]
    /\ emitted = {}
    /\ emails = {}
    /\ gs = EmptyBag
    /\ kanbanCfg = NoConfig
    /\ mapIn = NoCall
    /\ mapOut = NoResult
    /\ SideIdle

\* The REST requests next to one notification callback at a time.
NextStore ==
    \/ \E env \in Published : Receive(env, 1)
    \/ \E r \in BagToSet(hs), ok \in BOOLEAN : FindOne(r, ok)
    \/ \E r \in BagToSet(hs), ok \in BOOLEAN, nOk \in 0..MaxEvents : GetHistory(r, ok, nOk)
    \/ \E r \in BagToSet(hs), ok \in BOOLEAN : Save(r, ok)
    \/ \E r \in BagToSet(hs) : Release(r)
    \/ \E u \in Users, m \in HistoryIds : GCall(u, m)
    \/ \E g \in BagToSet(gs), ok \in BOOLEAN : GFindOne(g, ok)
    \/ \E g \in BagToSet(gs), ok \in BOOLEAN, dbOk \in BOOLEAN : GGetMessage(g, ok, dbOk)
    \/ \E g \in BagToSet(gs), ok \in BOOLEAN : GSave(g, ok)
    \/ \E g \in BagToSet(gs) : GRelease(g)
    \/ \E u \in Users, m \in HistoryIds, status \in ValidStatuses : PatchStatus(u, m, status)

SpecStore == InitStore /\ [][NextStore]_vars

\* ------------------------------------------- the status mapper on its own
\* Kanban configurations and label lists getStatusFromGmailLabels is run on.
Columns ==
    [status : {"inbox", "todo", "done"},
     gmailLabel : {NoLabel, "INBOX", "STARRED"},
     order : 0..MaxRules]

RuleSets == UNION {[1..n -> Columns] : n \in 0..MaxRules}

LabelLists ==
    {<<>>, <<"INBOX">>, <<"STARRED">>, <<"UNREAD">>, <<"INBOX", "STARRED">>,
     <<"STARRED", "INBOX">>, <<"UNREAD", "STARRED">>, <<"STARRED", "UNREAD", "INBOX">>}

InitMapper ==
    /\ mailboxH = [u \in Users |-> FirstHistoryId]
    /\ added = [u \in Users |-> {}]
    /\ watched = [u \in Users |-> FALSE]
    /\ cursor = [u \in Users |-> NoCursor]
    /\ firstSeed = [u \in Users |-> NoCursor]
    /\ hs = EmptyBag
    /\ st = [u \in Users |-> IdleStart]
    /\ emitted = {}
    /\ emails = {}
    /\ gs = EmptyBag
    /\ kanbanCfg \in RuleSets \cup {NoConfig}
    /\ mapIn \in [gmailLabels : LabelLists, mailboxId : {"INBOX"}]
    /\ mapOut = NoResult
    /\ SideIdle

\* One call of getStatusFromGmailLabels: a user without configuration gets
\* the default one saved; the status comes back.
MapperCall(dbOk) ==
    /\ ~mapOut.called
    /\ mapOut' = [status |-> getStatusFromGmailLabels(kanbanCfg, mapIn.gmailLabels,
                                                      mapIn.mailboxId, dbOk),
                  dbOk |-> dbOk, called |-> TRUE]
    /\ kanbanCfg' = IF dbOk THEN LoadedConfig(kanbanCfg) ELSE kanbanCfg
    /\ UNCHANGED <<mailboxH, added, watched, cursor, firstSeed, hs, st, emitted,
                   emails, gs, mapIn, sideVars>>

\* The next message to map carries other labels.
MapperInput(labels) ==
    /\ mapOut.called
    /\ mapIn' = [mapIn EXCEPT !.gmailLabels = labels]
    /\ mapOut' = NoResult
    /\ UNCHANGED <<mailboxH, added, watched, cursor, firstSeed, hs, st, emitted,
                   emails, gs, kanbanCfg, sideVars>>

NextMapper ==
    \/ \E dbOk \in BOOLEAN : MapperCall(dbOk)
    \/ \E labels \in LabelLists : MapperInput(labels)

SpecMapper == InitMapper /\ [][NextMapper]_vars

\* ------------------------------------------------------- snooze expiry
\* What the snooze routes and the expiry job leave alone.
syncVars == <<mailboxH, added, watched, cursor, firstSeed, hs, st, gs>>

Times == 1..MaxTime

Key(e) == <<e.userId, e.emailId>>

\* The sweeper's query {status: "snoozed", snoozeUntil: {$lte: now}}; a
\* null snoozeUntil matches no date comparison.
Expired(e, at) ==
    e.status = "snoozed" /\ e.snoozeUntil # NoSnooze /\ e.snoozeUntil <= at

\* The by-status route's filter {status: "snoozed", snoozeUntil: {$lt: new Date()}}.
ExpiredBefore(e, at) ==
    e.status = "snoozed" /\ e.snoozeUntil # NoSnooze /\ e.snoozeUntil < at

Restored_stillSnoozed(e) == [e EXCEPT !.snoozeUntil = NoSnooze]

\* status = "inbox"; snoozeUntil = null
Restored(e) == [e EXCEPT !.status = "inbox", !.snoozeUntil = NoSnooze]

\* email.save() of a loaded document: an update by _id of the modified
\* paths, whatever the stored document holds by now.
SaveRestored(store, k) ==
    {IF Key(e) = k THEN Restored(e) ELSE e : e \in store}

ReplaceS(r, r2) == (sw (-) SetToBag({r})) (+) SetToBag({r2})

\* The clock advances.
Tick ==
    /\ now < MaxTime
    /\ now' = now + 1
    /\ UNCHANGED <<clientVars, syncVars, emitted, emails, mapVars, sw, swept, sockVars, login>>

\* POST /emails/:id/snooze on a stored item, with a valid future date.
Snooze(u, m, until) ==
    /\ until > now
    /\ \E e \in emails :
         /\ e.emailId = m /\ e.userId = u
         /\ emails' = (emails \ {e}) \cup
                        {[e EXCEPT !.status = "snoozed", !.snoozeUntil = until]}
    /\ swept' = Untouched(swept, <<u, m>>)
    /\ UNCHANGED <<clientVars, syncVars, emitted, mapVars, now, sw, sockVars, login>>

\* The setInterval callback fires: now = new Date(), EmailModel.find is
\* awaited.  At most limit callbacks are in flight.
SweepStart(limit) ==
    /\ BagCardinality(sw) < limit
    /\ sw' = sw (+) SetToBag({[pc |-> "find", at |-> now, sel |-> {}]})
    /\ UNCHANGED <<clientVars, syncVars, emitted, emails, mapVars, now, swept, sockVars, login>>

\* EmailModel.find resolves with the expired items (or rejects into the
\* catch block); without any the callback is over.
SweepFind(r, ok) ==
    /\ BagIn(r, sw)
    /\ r.pc = "find"
    /\ LET expiredEmails == {Key(e) : e \in {x \in emails : Expired(x, r.at)}}
       IN sw' = IF ok /\ expiredEmails # {}
                  THEN ReplaceS(r, [r EXCEPT !.pc = "save", !.sel = expiredEmails])
                  ELSE sw (-) SetToBag({r})
    /\ UNCHANGED <<clientVars, syncVars, emitted, emails, mapVars, now, swept, sockVars, login>>

\* One turn of the for loop: the loaded document k gets status "inbox" and
\* snoozeUntil null and its save() resolves, or rejects into the catch block,
\* which ends the callback.  Nothing is handed to socketService.
SweepSave(r, k, ok) ==
    /\ BagIn(r, sw)
    /\ r.pc = "save"
    /\ k \in r.sel
    /\ IF ok
         THEN /\ emails' = SaveRestored(emails, k)
              /\ swept' = swept (+) SetToBag({k})
              /\ sw' = IF r.sel = {k} THEN sw (-) SetToBag({r})
                       ELSE ReplaceS(r, [r EXCEPT !.sel = @ \ {k}])
         ELSE /\ sw' = sw (-) SetToBag({r})
              /\ UNCHANGED <<emails, swept>>
    /\ UNCHANGED <<clientVars, syncVars, emitted, mapVars, now, sockVars, login>>

\* GET /emails/by-status/:status: one updateMany moves the user's expired
\* snoozed items back to inbox (or rejects, which is logged).
AutoExpire(u, ok) ==
    /\ LET hit == {e \in emails : e.userId = u /\ ExpiredBefore(e, now)}
       IN IF ok
            THEN /\ emails' = (emails \ hit) \cup {Restored(e) : e \in hit}
                 /\ swept' = swept (+) SetToBag({Key(e) : e \in hit})
            ELSE UNCHANGED <<emails, swept>>
    /\ UNCHANGED <<clientVars, syncVars, emitted, mapVars, now, sw, sockVars, login>>

\* The keys of the items stored when the snooze routes are exercised.
StoredKeys == {<<u, m>> : u \in Users, m \in {FirstHistoryId + 1, FirstHistoryId + 2}}

\* A linked mailbox with two stored items in the inbox.
InitSnooze ==
    /\ mailboxH = [u \in Users |-> FirstHistoryId + 2]
    /\ added = [u \in Users |-> {FirstHistoryId + 1, FirstHistoryId + 2}]
    /\ watched = [u \in Users |-> TRUE]
    /\ cursor = [u \in Users |-> FirstHistoryId + 2]
    /\ firstSeed = [u \in Users |-> FirstHistoryId]
    /\ hs = EmptyBag
    /\ st = [u \in Users |-> IdleStart]
    /\ emitted = {}
    /\ emails = {[emailId |-> k[2], userId |-> k[1], status |-> "inbox",
                   snoozeUntil |-> NoSnooze] : k \in StoredKeys}
    /\ gs = EmptyBag
    /\ kanbanCfg = DefaultColumns
    /\ mapIn = NoCall
    /\ mapOut = NoResult
    /\ SideIdle

NextSnooze ==
    \/ Tick
    \/ \E u \in Users, m \in HistoryIds, until \in Times : Snooze(u, m, until)
    \/ \E u \in Users, m \in HistoryIds, status \in ValidStatuses : PatchStatus(u, m, status)
    \/ SweepStart(MaxSweeps)
    \/ \E r \in BagToSet(sw), ok \in BOOLEAN : SweepFind(r, ok)
    \/ \E r \in BagToSet(sw), k \in StoredKeys, ok \in BOOLEAN : SweepSave(r, k, ok)
    \/ \E u \in Users, ok \in BOOLEAN : AutoExpire(u, ok)

SpecSnooze == InitSnooze /\ [][NextSnooze]_vars

\* The expiry job on its own, one callback at a time (the timer's period is
\* far longer than a run), next to the user's moves and snoozes: the
\* timer keeps firing, the clock keeps running, and a query or a save that
\* can succeed over and over does succeed in the end.
NextSweep ==
    \/ Tick
    \/ \E u \in Users, m \in HistoryIds, until \in Times : Snooze(u, m, until)
    \/ \E u \in Users, m \in HistoryIds, status \in ValidStatuses : PatchStatus(u, m, status)
    \/ SweepStart(1)
    \/ \E r \in BagToSet(sw), ok \in BOOLEAN : SweepFind(r, ok)
    \/ \E r \in BagToSet(sw), k \in StoredKeys, ok \in BOOLEAN : SweepSave(r, k, ok)

SpecSweep ==
    /\ InitSnooze
    /\ [][NextSweep]_vars
    /\ WF_vars(Tick)
    /\ WF_vars(SweepStart(1))
    /\ SF_vars(\E r \in BagToSet(sw) : SweepFind(r, TRUE))
    /\ \A k \in StoredKeys : SF_vars(\E r \in BagToSet(sw) : SweepSave(r, k, TRUE))

\* ------------------------------------------------------- SocketService
\* The userId values the JWT of a socket handshake may carry.
UserIds == {"u1", "u2"}

\* Map.prototype.set and Map.prototype.delete on userSockets.
MapSet(map, key, value) ==
    [x \in DOMAIN map \cup {key} |-> IF x = key THEN value ELSE map[x]]

MapDelete(map, key) == [x \in DOMAIN map \ {key} |-> map[x]]

\* sockets.indexOf(socket.id), counted from 1; 0 when absent (-1 in the code).
IndexOf(sockets, id) ==
    IF \E i \in 1..Len(sockets) : sockets[i] = id
      THEN CHOOSE i \in 1..Len(sockets) :
               sockets[i] = id /\ \A j \in 1..(i - 1) : sockets[j] # id
      ELSE 0

Splice_keep(sockets, index) == sockets

\* sockets.splice(index, 1)
Splice(sockets, index) ==
    SubSeq(sockets, 1, index - 1) \o SubSeq(sockets, index + 1, Len(sockets))

SocketsOf_first(map, userId) ==
    IF userId \in DOMAIN map THEN <<Head(map[userId])>> ELSE << >>

SocketsOf_any(map, userId) ==
    IF DOMAIN map = {} THEN << >> ELSE map[CHOOSE x \in DOMAIN map : TRUE]

\* this.userSockets.get(userId), with no list when the user has no entry.
SocketsOf(map, userId) ==
    IF userId \in DOMAIN map THEN map[userId] ELSE << >>

\* initialize(httpServer): the socket.io server is created.
Initialize ==
    /\ ~io
    /\ io' = TRUE
    /\ UNCHANGED <<clientVars, syncVars, emitted, emails, mapVars, sweepVars, login,
                   userSockets, live, sent>>

\* A client whose handshake carried a token of userId connects: socket.io
\* gives the socket a fresh id, and the connection handler appends it to
\* the user's list, creating the list first if the user has none.
Connect(userId) ==
    /\ io
    /\ Len(live) < MaxSockets
    /\ LET id == Len(live) + 1
       IN /\ live' = Append(live, [userId |-> userId, connected |-> TRUE])
          /\ userSockets' = MapSet(userSockets, userId,
                                   Append(SocketsOf(userSockets, userId), id))
    /\ UNCHANGED <<clientVars, syncVars, emitted, emails, mapVars, sweepVars, login, io, sent>>

\* The socket disconnects: its handler takes the id out of the user's list
\* and deletes the entry of a list left empty.
Disconnect(id) ==
    /\ id \in 1..Len(live)
    /\ live[id].connected
    /\ live' = [live EXCEPT ![id].connected = FALSE]
    /\ LET userId == live[id].userId
           sockets == SocketsOf(userSockets, userId)
           index == IndexOf(sockets, id)
           left == IF index > 0 THEN Splice(sockets, index) ELSE sockets
       IN userSockets' = IF left = << >>
                           THEN MapDelete(userSockets, userId)
                           ELSE MapSet(userSockets, userId, left)
    /\ UNCHANGED <<clientVars, syncVars, emitted, emails, mapVars, sweepVars, login, io, sent>>

\* emitToUser(userId, event, data): nothing without a server; otherwise one
\* io.to(socketId).emit per id of the user's list.
EmitToUser(userId) ==
    /\ sent' = [userId |-> userId,
                to |-> IF io THEN SocketsOf(userSockets, userId) ELSE << >>]
    /\ UNCHANGED <<clientVars, syncVars, emitted, emails, mapVars, sweepVars, login,
                   io, userSockets, live>>

NextSocket ==
    \/ Initialize
    \/ \E userId \in UserIds : Connect(userId)
    \/ \E id \in 1..MaxSockets : Disconnect(id)
    \/ \E userId \in UserIds : EmitToUser(userId)

SpecSocket == Init /\ [][NextSocket]_vars

\* ------------------------------------------- POST /refresh, POST /logout
\* tokenStore keeps one app refresh token per user, the last one set.
getAppRefreshToken(store, userId) ==
    IF userId \in DOMAIN store THEN store[userId] ELSE NoToken

setAppRefreshToken(store, userId, token) ==
    [x \in DOMAIN store \cup {userId} |-> IF x = userId THEN token ELSE store[x]]

\* The cookie a request carries: a userId, or none.
Cookies == Accounts \cup {"none"}

\* The Authorization header of a logout: an access token that verifies for a
\* user, one that does not verify, or no header.
Bearers == Accounts \cup {"invalid", "none"}

\* jwt.verify of the stored token against JWT_REFRESH_SECRET: a token signed
\* by generateTokens verifies until its seven days are over. It was signed
\* for the user it is stored under, so the userId comparison never fails.
Verifies(token) == token = "valid"

Revoke_kept(store, userId) == store

\* What logout does for a user it has identified.
Revoke(store, userId) == setAppRefreshToken(store, userId, NoToken)

\* POST /login, GET /google/callback and POST /google, at the line where
\* the refresh token just signed is stored for the user.
Login(u) ==
    /\ appRefreshToken' = setAppRefreshToken(appRefreshToken, u, "valid")
    /\ revoked' = [revoked EXCEPT ![u] = "no"]
    /\ UNCHANGED <<answer, tabVars, listVars, mailboxH, added, watched, cursor, firstSeed,
                   hs, st, emitted, emails, gs, mapVars, sweepVars, sockVars, login>>

\* REFRESH_EXPIRY passes for the token stored for u.
TokenExpires(u) ==
    /\ appRefreshToken[u] = "valid"
    /\ appRefreshToken' = setAppRefreshToken(appRefreshToken, u, "expired")
    /\ UNCHANGED <<revoked, answer, tabVars, listVars, mailboxH, added, watched, cursor,
                   firstSeed, hs, st, emitted, emails, gs, mapVars, sweepVars, sockVars, login>>

Answer(cookie, status, accessToken) ==
    [n |-> answer.n + 1, userId |-> cookie, status |-> status, accessToken |-> accessToken,
     loggedOut |-> cookie \in Accounts /\ revoked[cookie] # "no"]

\* POST /refresh with the given cookie. The handler has no await.
Refresh(cookie) ==
    /\ answer.n < MaxCalls
    /\ LET storedRefreshToken == getAppRefreshToken(appRefreshToken, cookie)
       IN  IF cookie = "none" \/ storedRefreshToken = NoToken
             THEN /\ answer' = Answer(cookie, 401, FALSE)
                  /\ UNCHANGED appRefreshToken
             ELSE IF Verifies(storedRefreshToken)
                    THEN /\ answer' = Answer(cookie, 200, TRUE)
                         /\ UNCHANGED appRefreshToken
                    ELSE /\ appRefreshToken' = setAppRefreshToken(appRefreshToken, cookie, NoToken)
                         /\ answer' = Answer(cookie, 401, FALSE)
    /\ UNCHANGED <<revoked, tabVars, listVars, mailboxH, added, watched, cursor, firstSeed,
                   hs, st, emitted, emails, gs, mapVars, sweepVars, sockVars, login>>

\* POST /logout with the given cookie and Authorization header: the token of
\* the cookie's user is cleared, and that of the user of a header that
\* verifies.
Logout(cookie, bearer) ==
    /\ LET s1 == IF cookie # "none" THEN Revoke(appRefreshToken, cookie) ELSE appRefreshToken
           s2 == IF bearer \in Accounts THEN Revoke(s1, bearer) ELSE s1
       IN  appRefreshToken' = s2
    /\ revoked' = [u \in Accounts |->
                      IF u \notin {cookie, bearer} THEN revoked[u]
                      ELSE IF appRefreshToken[u] # NoToken \/ revoked[u] = "token"
                             THEN "token" ELSE "empty"]
    /\ UNCHANGED <<answer, tabVars, listVars, mailboxH, added, watched, cursor, firstSeed,
                   hs, st, emitted, emails, gs, mapVars, sweepVars, sockVars, login>>

NextAuth ==
    \/ \E u \in Accounts : Login(u)
    \/ \E u \in Accounts : TokenExpires(u)
    \/ \E cookie \in Cookies : Refresh(cookie)
    \/ \E cookie \in Cookies, bearer \in Bearers : Logout(cookie, bearer)

SpecAuth == Init /\ [][NextAuth]_vars

\* ------------------------------------------------- GET /google/callback
CallbackAnswer_awaitingWatch ==
    [startCalled |-> TRUE, tokens |-> FALSE, cookie |-> FALSE, redirect |-> "none"]

\* What the route has answered once it is past its call of
\* notificationManager.startWatch(user.id), which it does not await: the app
\* tokens are generated, the session cookie is set and the browser is sent
\* to the frontend callback, all before start gets to run past its first await.
CallbackAnswer ==
    [startCalled |-> TRUE, tokens |-> TRUE, cookie |-> TRUE, redirect |-> "callback"]

\* The route's answer when the code exchange, the userinfo request or the
\* user lookup fails before the watch is started.
CallbackError ==
    [startCalled |-> FALSE, tokens |-> FALSE, cookie |-> FALSE, redirect |-> "login_error"]

\* GET /google/callback for user u, from the token exchange to the redirect.
\* With authOk the route reaches startWatch: PullStrategy.start begins as in
\* StartCall (one start per user at a time) and the answer goes out.
GoogleCallback(u, authOk) ==
    /\ st[u].pc = "idle"
    /\ IF authOk
         THEN /\ st' = [st EXCEPT ![u] = [pc |-> "watch", resp |-> 0]]
              /\ login' = [login EXCEPT ![u] = CallbackAnswer]
              /\ appRefreshToken' = setAppRefreshToken(appRefreshToken, u, "valid")
              /\ revoked' = [revoked EXCEPT ![u] = "no"]
         ELSE /\ login' = [login EXCEPT ![u] = CallbackError]
              /\ UNCHANGED <<st, appRefreshToken, revoked>>
    /\ UNCHANGED <<answer, tabVars, listVars, mailboxH, added, watched, cursor, firstSeed, hs, emitted, emails, gs,
                   mapVars, sweepVars, sockVars>>

\* Logins of a user whose mailbox keeps changing; the promise of start
\* settles after the answer, its rejection only logged by the route's .catch.
NextLogin ==
    \/ \E u \in Users, authOk \in BOOLEAN : GoogleCallback(u, authOk)
    \/ \E u \in Users, ok \in BOOLEAN : StartWatch(u, ok)
    \/ \E u \in Users, ok \in BOOLEAN : StartSave(u, ok)
    \/ \E u \in Users, isMsg \in BOOLEAN : ProviderEvent(u, isMsg)

SpecLogin == Init /\ [][NextLogin]_vars

\* ---------------------------------------- auth worker and AuthProvider
\* Everything the server holds: the tabs and the page do not touch it.
serverVars == <<syncVars, emitted, emails, mapVars, sweepVars, sockVars, login, authVars>>

PortsOf(t) == {p \in ports : p[1] = t}

\* Tabs that have a port in the worker's set.
ConnectedTabs == {p[1] : p \in ports}

\* handleLogout calls awaiting clearCache and LOGOUT messages not yet handled.
InFlight == BagCardinality(logouts) + BagCardinality(toWorker) + BagCardinality(toPort)

Take(b, x) == b (-) SetToBag({x})

Put(b, x) == b (+) SetToBag({x})

\* ports.forEach(p => { if (p !== port) p.postMessage({type: 'LOGOUT'}) })
Broadcast(all, port) == SetToBag(all \ {port})

\* The effect of AuthProvider that creates the worker: new AuthWorker() opens
\* a port, the worker's onconnect adds it to its set, and workerRef.current
\* is the new worker. The effect has no cleanup and runs again whenever
\* handleLogout changes; the ports it opened before stay in the set with
\* their onmessage handlers.
Mount(t) ==
    /\ Cardinality(ports) < MaxPorts
    /\ LET port == <<t, Cardinality(PortsOf(t)) + 1>>
       IN  /\ ports' = ports \cup {port}
           /\ workerRef' = [workerRef EXCEPT ![t] = port]
    /\ UNCHANGED <<user, logouts, toWorker, toPort, posted, owed, listVars, serverVars>>

\* setUser(userData) in a mounted tab: the tab is logged in.
SetUser(t) ==
    /\ workerRef[t] # NoPort
    /\ ~user[t]
    /\ user' = [user EXCEPT ![t] = TRUE]
    /\ owed' = owed \ {t}
    /\ UNCHANGED <<ports, workerRef, logouts, toWorker, toPort, posted, listVars, serverVars>>

\* handleLogout(notifyWorker) in tab t up to its await: clearTokens(),
\* setUser(null) and the call of cacheService.clearCache().
HandleLogout(t, notifyWorker) ==
    /\ user' = [user EXCEPT ![t] = FALSE]
    /\ logouts' = Put(logouts, [tab |-> t, notifyWorker |-> notifyWorker])

\* logout(), or the auth:logout event: handleLogout(true) in a logged-in tab.
LogoutClick(t) ==
    /\ workerRef[t] # NoPort
    /\ user[t]
    /\ InFlight < MaxLogouts
    /\ HandleLogout(t, TRUE)
    /\ owed' = (owed \cup ConnectedTabs) \ {t}
    /\ UNCHANGED <<ports, workerRef, toWorker, toPort, posted, listVars, serverVars>>

\* The rest of handleLogout once clearCache has settled. clearCache rejects
\* when the IndexedDB transaction fails; handleLogout has no try around the
\* await, so a rejection ends the call before the worker is told.
ClearCacheSettles(c, ok) ==
    /\ c \in BagToSet(logouts)
    /\ logouts' = Take(logouts, c)
    /\ toWorker' = IF ok /\ c.notifyWorker /\ workerRef[c.tab] # NoPort
                     THEN Put(toWorker, workerRef[c.tab])
                     ELSE toWorker
    /\ UNCHANGED <<ports, workerRef, user, toPort, posted, owed, listVars, serverVars>>

\* port.onmessage of the worker for a LOGOUT message sent on the port.
WorkerOnMessage(port) ==
    /\ port \in BagToSet(toWorker)
    /\ toWorker' = Take(toWorker, port)
    /\ toPort' = toPort (+) Broadcast(ports, port)
    /\ posted' = [from |-> port, at |-> ports, to |-> Broadcast(ports, port)]
    /\ UNCHANGED <<ports, workerRef, user, logouts, owed, listVars, serverVars>>

\* worker.port.onmessage of the tab that opened the port: handleLogout(false).
PortOnMessage(port) ==
    /\ port \in BagToSet(toPort)
    /\ toPort' = Take(toPort, port)
    /\ HandleLogout(port[1], FALSE)
    /\ UNCHANGED <<ports, workerRef, toWorker, posted, owed, listVars, serverVars>>

NextTabs ==
    \/ \E t \in Tabs : Mount(t)
    \/ \E t \in Tabs : SetUser(t)
    \/ \E t \in Tabs : LogoutClick(t)
    \/ \E c \in BagToSet(logouts), ok \in BOOLEAN : ClearCacheSettles(c, ok)
    \/ \E port \in ports : WorkerOnMessage(port)
    \/ \E port \in ports : PortOnMessage(port)

SpecTabs == Init /\ [][NextTabs]_vars

\* ------------------------------------- useMailboxEmails, handleNewEmail
EmailIds == 1..MaxIds

\* The ids of the e-mails of a list.
IdSet(es) == {es[i] : i \in 1..Len(es)}

\* One page of GET /mailboxes/:mailboxId/emails: the messages the provider
\* lists for the page, each once, in any order the mailbox can have.
Pages ==
    {page \in UNION {[1..n -> EmailIds] : n \in 0..MaxPage} :
        Cardinality(IdSet(page)) = Len(page)}

RECURSIVE Descending(_)
\* The cached e-mails of the mailbox, newest first (an id stands for its
\* e-mail's timestamp too); the store is keyed by id.
Descending(S) ==
    IF S = {} THEN << >>
    ELSE LET newest == CHOOSE x \in S : \A y \in S : y <= x
         IN  <<newest>> \o Descending(S \ {newest})

\* cacheService.saveEmails(es): a put per e-mail, or nothing stored when the
\* transaction fails (the rejection is not awaited, or is caught and logged).
SaveEmails(es, ok) == IF ok THEN cache \cup IdSet(es) ELSE cache

AppendNew_all(prev, freshEmails) == prev \o freshEmails

\* The updater of loadMore: [...prev, ...freshEmails.filter(e => !existingIds.has(e.id))]
AppendNew(prev, freshEmails) ==
    prev \o SelectSeq(freshEmails, LAMBDA e : e \notin IdSet(prev))

\* The updater of handleNewEmail.
PrependNew(prevEmails, newEmail) ==
    IF newEmail \in IdSet(prevEmails) THEN prevEmails ELSE <<newEmail>> \o prevEmails

\* fetchEmails(false), first half: the cached e-mails are shown when there are any.
ShowCached ==
    /\ cache # {}
    /\ list' = Descending(cache)
    /\ lastOp' = [op |-> "cached", dropped |-> 0]
    /\ UNCHANGED <<cache, tabVars, serverVars>>

\* fetchEmails(false), second half: the first page replaces the list.
FirstPage(page, ok) ==
    /\ list' = page
    /\ cache' = SaveEmails(page, ok)
    /\ lastOp' = [op |-> "first", dropped |-> 0]
    /\ UNCHANGED <<tabVars, serverVars>>

\* fetchEmails(true) once its response is in: the page is appended.
LoadMorePage(page, ok) ==
    /\ list' = AppendNew(list, page)
    /\ cache' = SaveEmails(list', ok)
    /\ lastOp' = [op |-> "loadMore", dropped |-> Len(list) + Len(page) - Len(list')]
    /\ UNCHANGED <<tabVars, serverVars>>

\* handleNewEmail for an email:new event; shown says whether the e-mail
\* belongs to the mailbox on the page.
NewEmail(newEmail, shown, ok) ==
    /\ list' = IF shown THEN PrependNew(list, newEmail) ELSE list
    /\ cache' = IF list' # list THEN SaveEmails(list', ok) ELSE cache
    /\ lastOp' = [op |-> "new", dropped |-> IF shown /\ list' = list THEN 1 ELSE 0]
    /\ UNCHANGED <<tabVars, serverVars>>

\* The mailbox of the page changes: setEmails([]) before the fetch.
MailboxChange ==
    /\ list' = << >>
    /\ lastOp' = [op |-> "reset", dropped |-> 0]
    /\ UNCHANGED <<cache, tabVars, serverVars>>

NextList ==
    \/ ShowCached
    \/ \E page \in Pages, ok \in BOOLEAN : FirstPage(page, ok)
    \/ \E page \in Pages, ok \in BOOLEAN : LoadMorePage(page, ok)
    \/ \E newEmail \in EmailIds, shown \in BOOLEAN, ok \in BOOLEAN : NewEmail(newEmail, shown, ok)
    \/ MailboxChange

SpecList == Init /\ [][NextList]_vars

\* =================================================================== claims
\* The callback r took a step in this transition.
Stepped(r) == CopiesIn(r, hs') < CopiesIn(r, hs)

\* The callbacks of user u that have read the cursor and not yet returned.
InPass(u) ==
    LET S == {r \in BagToSet(hs) : r.email = u /\ r.pc \in {"getHistory", "save"}}
    IN BagCardinality([r \in S |-> hs[r]])

Items(u, m) == {e \in emails : e.userId = u /\ e.emailId = m}

\* C1: no step of a notification callback lowers a user's stored
\* latestHistoryId, whatever the interleaving of the callbacks.
C1_CursorNeverDecreases ==
    [][hs' # hs => \A u \in Users : cursor'[u] >= cursor[u]]_vars

\* C2: a callback that loads a cursor at or above its envelope's historyId
\* ends there: no getHistory is issued, nothing is emitted, and the cursor
\* and the stored items stay as they are.
C2_StaleIsDropped ==
    [][\A r \in BagToSet(hs) :
         (/\ r.pc = "findOne"
          /\ cursor[r.email] # NoCursor
          /\ r.newH <= cursor[r.email]
          /\ Stepped(r))
         => /\ \A x \in BagToSet(hs') :
                  CopiesIn(x, hs') > CopiesIn(x, hs) => x.pc = "done"
            /\ UNCHANGED <<cursor, emitted, emails>>]_vars

C2_Witness ==
    \E r \in BagToSet(hs) : r.pc = "done" /\ r.outcome = "stale" /\ r.acked

\* C3: when a pass stores its cursor, the cursor equals the envelope's
\* historyId, and every message added in (loaded cursor, historyId] has an
\* Email item and was handed to delivery.
C3_FreshPassIngests ==
    [][\A r \in BagToSet(hs) :
         (r.pc = "save" /\ Stepped(r) /\ cursor' # cursor)
         => /\ cursor'[r.email] = r.newH
            /\ \A m \in added[r.email] :
                  (r.snap < m /\ m <= r.newH)
                  => <<r.email, m>> \in emitted' /\ Items(r.email, m)' # {}]_vars

\* C4: a callback one of whose provider fetches rejected never stores the
\* cursor: the write happens only after the whole batch went through.
C4_FailedPassKeepsCursor ==
    \A r \in BagToSet(hs) : r.fetchFailed => ~r.wrote /\ r.pc = "done"

C4_Witness ==
    \E r \in BagToSet(hs) :
        /\ r.fetchFailed /\ r.pc = "done"
        /\ emitted # {}
        /\ cursor[r.email] # NoCursor

\* C5: when a pass goes again through a message an earlier pass already
\* handled, the store holds exactly one Email item for that message.
C5_ReprocessingKeepsOneItem ==
    [][\A r \in BagToSet(hs) :
         (r.pc = "getHistory" /\ Stepped(r))
         => \A m \in added[r.email] :
               (r.snap < m /\ <<r.email, m>> \in emitted /\ <<r.email, m>> \in emitted')
               => Cardinality(Items(r.email, m)') = 1]_vars

\* C7: at most one pass per user is between reading the cursor and returning.
C7_PassesSerialized == \A u \in Users : InPass(u) <= 1

\* C8: an acknowledged message is one whose pass did not fail.
C8_AckOnlyAfterSuccess ==
    \A r \in BagToSet(hs) : r.acked => r.outcome \notin {"failed", "threw"}

\* C9: every message added above the first seeded cursor and at or below
\* the stored cursor was persisted or handed to delivery.
C9_NoMailDropped ==
    \A u \in Users : \A m \in added[u] :
        (firstSeed[u] # NoCursor /\ firstSeed[u] < m /\ m <= cursor[u])
        => <<u, m>> \in emitted \/ Items(u, m) # {}

\* The columns whose gmailLabel is one of the labels of the list.
Matching(cfg, gmailLabels) ==
    {i \in 1..Len(cfg) :
        cfg[i].gmailLabel # NoLabel
        /\ cfg[i].gmailLabel \in {gmailLabels[k] : k \in 1..Len(gmailLabels)}}

\* C10: when some column's label is among the message's labels, the mapper
\* returns the status of a matching column of smallest order, whatever the
\* order of the labels in the list.
C10_SmallestOrderWins ==
    (mapOut.called /\ mapOut.dbOk)
    => LET M == Matching(kanbanCfg, mapIn.gmailLabels)
       IN M # {} =>
            \E i \in M :
                /\ \A j \in M : kanbanCfg[i].order <= kanbanCfg[j].order
                /\ mapOut.status = kanbanCfg[i].status

C10_Witness ==
    /\ mapOut.called /\ mapOut.dbOk
    /\ kanbanCfg = << [status |-> "todo", gmailLabel |-> "STARRED", order |-> 1],
                      [status |-> "inbox", gmailLabel |-> "INBOX", order |-> 0] >>
    /\ mapIn.gmailLabels = <<"STARRED", "INBOX">>
    /\ mapOut.status = "inbox"

Labelless(cfg) == {i \in 1..Len(cfg) : cfg[i].gmailLabel = NoLabel}

\* C11: when no column's label is among the message's labels, the mapper
\* returns the status of a labelless column if the configuration has one,
\* and the mailbox hint only if it has none.
C11_DefaultRuleFallback ==
    (mapOut.called /\ mapOut.dbOk /\ Matching(kanbanCfg, mapIn.gmailLabels) = {})
    => IF Labelless(kanbanCfg) # {}
         THEN \E i \in Labelless(kanbanCfg) : mapOut.status = kanbanCfg[i].status
         ELSE mapOut.status = mapIn.mailboxId

\* C12: an expired item is moved back once: between two user actions on an
\* item, the expiry job and the by-status auto-expire together write it at
\* most once.
C12_ExpiredMovedOnce ==
    \A k \in BagToSet(swept) : CopiesIn(k, swept) <= 1

\* C13: the expiry job changes an item only if the item is, at the time of
\* the write, still snoozed with a snoozeUntil that has passed: a status or a
\* new snooze date a user stored in the meantime is kept.
C13_SweeperKeepsUserChange ==
    [][sw' # sw
        => \A e \in emails :
              e \notin emails'
              => e.status = "snoozed" /\ e.snoozeUntil # NoSnooze /\ e.snoozeUntil <= now]_vars

\* C14: an item the expiry job moves from snoozed to inbox is handed to
\* socketService.emitToUser for the item's owner in the same step.
C14_SweptItemIsDelivered ==
    [][sw' # sw
        => \A e \in emails :
              (e.status = "snoozed" /\ e \notin emails' /\ Restored(e) \in emails')
              => Key(e) \in emitted']_vars

\* The item of key k is snoozed until t.
SnoozedUntil(k, t) ==
    \E e \in emails : Key(e) = k /\ e.status = "snoozed" /\ e.snoozeUntil = t

\* C15: an item snoozed until t is in the end back in the inbox with no
\* snoozeUntil, unless a user action moved it elsewhere or snoozed it anew;
\* the expiry job alone brings it back, no notification is needed.
C15_SnoozedReturns ==
    \A k \in StoredKeys : \A t \in Times :
        SnoozedUntil(k, t)
        ~> \E e \in emails :
              /\ Key(e) = k
              /\ \/ e.status = "inbox" /\ e.snoozeUntil = NoSnooze
                 \/ e.status \in {"todo", "done"}
                 \/ e.status = "snoozed" /\ e.snoozeUntil \notin {t, NoSnooze}

C15_Witness ==
    \E e \in emails :
        /\ e.status = "inbox" /\ e.snoozeUntil = NoSnooze
        /\ CopiesIn(Key(e), swept) = 1
        /\ now = MaxTime
        /\ hs = EmptyBag /\ emitted = {}

\* The ids of the connected sockets whose handshake carried userId.
Connected(userId) ==
    {id \in 1..Len(live) : live[id].connected /\ live[id].userId = userId}

\* The ids a list holds, and whether it holds none of them twice.
Ids(sockets) == {sockets[i] : i \in 1..Len(sockets)}

NoRepeat(sockets) == Cardinality(Ids(sockets)) = Len(sockets)

\* C16: whatever connects, disconnects and emits came before, the ids an
\* emitToUser call for a user emits to are sockets of that user only.
C16_NoCrossUserDelivery ==
    \A id \in Ids(sent.to) : id \in 1..Len(live) /\ live[id].userId = sent.userId

C16_Witness ==
    /\ Len(sent.to) >= 1
    /\ \E other \in UserIds \ {sent.userId} : Connected(other) # {}
    /\ \E id \in 1..Len(live) : ~live[id].connected /\ live[id].userId = sent.userId
    /\ Ids(sent.to) = Connected(sent.userId)

\* C17: an emitToUser call emits once to each socket id registered for the
\* user at that time, to none when the user has no entry, and leaves the
\* registry and the connections as they are.
C17_EmitReachesEveryHandle ==
    [][sent' # sent
        => /\ Ids(sent'.to) = Connected(sent'.userId)
           /\ NoRepeat(sent'.to)
           /\ UNCHANGED <<userSockets, live>>]_vars

C17_Witness ==
    /\ Len(sent.to) = 2
    /\ Ids(sent.to) = Connected(sent.userId)

\* C18: the registry holds, for each user, exactly the ids of the sockets
\* that connected and have not disconnected, each once, and has no entry
\* with an empty list.
C18_RegistryMatchesConnections ==
    /\ DOMAIN userSockets \subseteq UserIds
    /\ \A userId \in UserIds :
          /\ Ids(SocketsOf(userSockets, userId)) = Connected(userId)
          /\ NoRepeat(SocketsOf(userSockets, userId))
          /\ userId \in DOMAIN userSockets => userSockets[userId] # << >>

C18_Witness ==
    \E id \in 1..Len(live) :
        /\ ~live[id].connected
        /\ live[id].userId \notin DOMAIN userSockets
        /\ DOMAIN userSockets # {}

\* C19: start leaves a stored latestHistoryId as it is: its save changes
\* the cursor only for a user who has none.
C19_StartSeedsOnlyIfAbsent ==
    [][\A u \in Users :
         (st[u].pc = "save" /\ st'[u].pc = "idle" /\ cursor[u] # NoCursor)
         => cursor'[u] = cursor[u]]_vars

\* C20: a login that got as far as starting the watch has issued the app
\* tokens, set the session cookie and redirected to the frontend callback,
\* whatever becomes of the watch registration.
C20_WatchFailureKeepsLogin ==
    \A u \in Users :
        login[u].startCalled
        => login[u].tokens /\ login[u].cookie /\ login[u].redirect = "callback"

\* The watch registration of the login threw: start is over, no watch is
\* registered and no cursor stored.
C20_Witness ==
    \E u \in Users :
        /\ login[u] = CallbackAnswer
        /\ st[u] = IdleStart
        /\ ~watched[u]
        /\ cursor[u] = NoCursor

\* C21: a message whose data is no envelope with an emailAddress and a
\* historyId is never acknowledged, and handling it changes no cursor and
\* no stored item.
C21_MalformedLeftUnacked ==
    [][\A x \in BagToSet(hs') :
         (/\ CopiesIn(x, hs') > CopiesIn(x, hs)
          /\ x.outcome = "malformed" \/ x.email = "undefined")
         => ~x.acked /\ UNCHANGED <<cursor, emails>>]_vars

\* C22: a notification whose address no user has, or whose user has no
\* latestHistoryId, ends at the guard once User.findOne resolved: no provider
\* fetch, no change of cursor, items or emits, and the message is acked.
C22_UnknownUserDropped ==
    [][\A r \in BagToSet(hs) :
         (/\ r.pc = "findOne"
          /\ LatestOf(cursor, r.email) = NoCursor
          /\ r.email # "undefined"
          /\ Stepped(r))
         => /\ \A x \in BagToSet(hs') :
                  CopiesIn(x, hs') > CopiesIn(x, hs)
                  => x.pc = "done" /\ (x.outcome # "threw" => x.acked)
            /\ UNCHANGED <<cursor, emitted, emails>>]_vars

C22_Witness ==
    \E r \in BagToSet(hs) :
        r.pc = "done" /\ r.outcome = "nouser" /\ r.acked /\ r.email = "nobody"

\* C23: the store never holds two items of one (emailId, userId), however
\* the check-then-insert steps of concurrent getOrCreateEmailFromGmail calls
\* interleave.
C23_OneItemPerMessage ==
    \A e1 \in emails : \A e2 \in emails : Key(e1) = Key(e2) => e1 = e2

\* Two calls for one message, both past their findOne before either saved:
\* one created the item, the other's insert was turned down.
C23_Witness ==
    \E g1 \in BagToSet(gs) : \E g2 \in BagToSet(gs) :
        /\ g1.pc = "done" /\ g1.outcome = "created"
        /\ g2.pc = "done" /\ g2.outcome = "rejected"
        /\ g1.emailId = g2.emailId /\ g1.userId = g2.userId
        /\ Cardinality(Items(g1.userId, g1.emailId)) = 1

\* C24: the messages a pass hands on lie in (latestHistoryId, newHistoryId]:
\* nothing added above the envelope's historyId is processed by the pass.
C24_PassStopsAtNewHistoryId ==
    [][\A r \in BagToSet(hs) :
         (r.pc = "getHistory" /\ Stepped(r))
         => \A p \in emitted' \ emitted : r.snap < p[2] /\ p[2] <= r.newH]_vars

\* C25: a pass hands a message to emitToUser only if the message is new: a
\* pass that went through its whole batch met no message that an earlier
\* pass had emitted or that was stored already.
C25_EmitOnlyNewMessages ==
    [][\A r \in BagToSet(hs) :
         (/\ r.pc = "getHistory" /\ Stepped(r)
          /\ \E x \in BagToSet(hs') : x.pc = "save" /\ CopiesIn(x, hs') > CopiesIn(x, hs))
         => \A m \in Ids(MessagesOf(getHistory(r.email, r.snap))) :
               <<r.email, m>> \notin emitted /\ Items(r.email, m) = {}]_vars

\* C27: a call of the mapper leaves the user's stored configuration as it
\* is (whether there is one, its columns and their order) along with every
\* other stored record, and the status it returns is a function of the
\* configuration and the labels alone.
C27_MapperHasNoSideEffect ==
    [][(mapOut' # mapOut /\ mapOut'.called)
        => /\ UNCHANGED <<kanbanCfg, emails, cursor>>
           /\ mapOut'.dbOk =>
                mapOut'.status = getStatusFromGmailLabels(kanbanCfg, mapIn.gmailLabels,
                                                          mapIn.mailboxId, TRUE)]_vars

\* C28: every stored item in status snoozed has a snoozeUntil.
C28_SnoozedHasDate ==
    \A e \in emails : e.status = "snoozed" => e.snoozeUntil # NoSnooze

\* C26: once POST /logout has cleared a user's token, every POST /refresh
\* carrying that user's cookie is answered 401 without an access token, until
\* a login stores a new refresh token for the user.
C26_RefreshAfterLogoutRejected ==
    [][(answer'.n # answer.n /\ answer'.userId \in Accounts /\ revoked[answer'.userId] # "no")
         => answer'.status = 401 /\ ~answer'.accessToken]_vars

\* A refresh turned down for a user whose stored token a logout has cleared,
\* after an earlier refresh was answered.
C26_Witness ==
    /\ answer.n >= 2
    /\ answer.loggedOut
    /\ revoked[answer.userId] = "token"
    /\ answer.status = 401
    /\ appRefreshToken[answer.userId] = NoToken

\* No handleLogout call is awaiting its clearCache and no LOGOUT message is
\* waiting for its handler.
Quiet == InFlight = 0

\* C29: when a tab logs out, the worker posts LOGOUT once to each connected
\* port other than the sending one, a tab logged out by that message posts
\* nothing back, and so once the messages are handled every tab that was
\* connected is logged out.
C29_EveryTabEndsLoggedOut ==
    /\ posted.to = SetToBag(posted.at \ {posted.from})
    /\ Quiet => \A t \in owed : ~user[t]

\* C30: however load-more responses, first pages and email:new events
\* interleave, the list of the page never holds two e-mails with the same id.
C30_NoDuplicateIds == NoRepeat(list)

\* A load-more response that brought an e-mail the list already had, and
\* was appended without it.
C30_Witness ==
    /\ lastOp.op = "loadMore"
    /\ lastOp.dropped >= 1
    /\ Len(list) > MaxPage

====
